---- MODULE Spec2Model ----
(***************************************************************************)
(* Gist feed loader of script.js: the paginated fetcher (fetchAllGists),   *)
(* the content classifier (getLanguageClass), the per-gist renderer        *)
(* (processGist) and the page driver (fetchGists).                          *)
(*                                                                         *)
(* JavaScript strings that the code inspects character by character        *)
(* (file names, declared languages, file bodies) are sequences of          *)
(* one-character strings.  Each 'await' of the code is a position of pc;   *)
(* the synchronous code between two awaits is one action.                  *)
(***************************************************************************)
EXTENDS Integers, Sequences, FiniteSets, TLC

VARIABLES pc, page, allGists, hasMore, error, gists, thrown, i,
          container, indexList, reqs, resp, highlights, server,
          clsFile, clsLang, prismLanguages, clsOut,
          escIn, escOut

pipeVars == <<pc, page, allGists, hasMore, error, gists, thrown, i,
              container, indexList, reqs, resp, highlights, server>>
clsVars == <<clsFile, clsLang, clsOut>>
escVars == <<escIn, escOut>>
vars == <<pipeVars, clsVars, prismLanguages, escVars>>
\* what a page load never writes: the GitHub side, the grammar registry and
\* the inputs and outputs of the classifier and of escapeHtml on their own
fixed == <<server, prismLanguages, clsVars, escVars>>

(* ---------------------------------------------------------------- bounds *)
MaxPages == 2
MaxGists == 2
MaxStaleTimers == 1
MaxText == 4

(* ------------------------------------------------------- string helpers *)
Null == <<"NULL">>
\* the backquote character, which a TLA+ string literal cannot hold
BQ == "bq"
\* JavaScript truthiness of an optional string: null and '' are falsy
Truthy(s) == s # Null /\ s # <<>>

LowerChar(c) ==
  CASE c = "A" -> "a" [] c = "B" -> "b" [] c = "C" -> "c" [] c = "D" -> "d"
    [] c = "E" -> "e" [] c = "F" -> "f" [] c = "G" -> "g" [] c = "H" -> "h"
    [] c = "I" -> "i" [] c = "J" -> "j" [] c = "K" -> "k" [] c = "L" -> "l"
    [] c = "M" -> "m" [] c = "N" -> "n" [] c = "O" -> "o" [] c = "P" -> "p"
    [] c = "Q" -> "q" [] c = "R" -> "r" [] c = "S" -> "s" [] c = "T" -> "t"
    [] c = "U" -> "u" [] c = "V" -> "v" [] c = "W" -> "w" [] c = "X" -> "x"
    [] c = "Y" -> "y" [] c = "Z" -> "z" [] OTHER -> c

toLowerCase(s) == [k \in 1..Len(s) |-> LowerChar(s[k])]

endsWith(s, suffix) ==
  /\ Len(suffix) <= Len(s)
  /\ SubSeq(s, Len(s) - Len(suffix) + 1, Len(s)) = suffix

SetMax(S) == CHOOSE m \in S : \A k \in S : k <= m

\* filename.split('.').pop(): the text after the last dot, or the whole
\* string when it has no dot
splitPop(s) ==
  LET dots == {k \in 1..Len(s) : s[k] = "."}
  IN  IF dots = {} THEN s ELSE SubSeq(s, SetMax(dots) + 1, Len(s))

(* ------------------------------------------------------ getLanguageClass *)
Lang(name) == <<"language-">> \o name

\* the test with the .yaml spelling forgotten
isYamlExtYmlOnly(ext) == ext = <<"y","m","l">>

isYamlExt(ext) == ext = <<"y","m","l">> \/ ext = <<"y","a","m","l">>

getLanguageClass(filename, language, prism) ==
  LET ext == toLowerCase(splitPop(filename))
      lang == toLowerCase(IF Truthy(language) THEN language
                          ELSE <<"t","e","x","t">>)
  IN  IF isYamlExt(ext) THEN Lang(<<"y","a","m","l">>)
      ELSE IF ext = <<"j","s">>
        THEN Lang(<<"j","a","v","a","s","c","r","i","p","t">>)
      ELSE IF ext = <<"p","y">> THEN Lang(<<"p","y","t","h","o","n">>)
      ELSE IF ext = <<"s","h">> THEN Lang(<<"b","a","s","h">>)
      ELSE IF ext = <<"j","s","o","n">> THEN Lang(<<"j","s","o","n">>)
      ELSE IF ext = <<"m","d">>
        THEN Lang(<<"m","a","r","k","d","o","w","n">>)
      ELSE IF ext = <<"h","t","m","l">> \/ ext = <<"h","t","m">>
        THEN Lang(<<"h","t","m","l">>)
      ELSE IF ext = <<"s","e","r","v","i","c","e">> THEN Lang(<<"i","n","i">>)
      ELSE IF ext = <<"i","n","i">> \/ ext = <<"c","f","g">>
              \/ ext = <<"e","x","t">>
        THEN Lang(<<"i","n","i">>)
      ELSE IF lang \in prism THEN Lang(lang)
      ELSE Lang(<<"t","e","x","t">>)

(* --------------------------------------------------- the GitHub side *)
\* Link response header: absent, or present with the rel values it lists.
\* GitHub lists rel="prev" and rel="first" from the second page on.
NoLink == [present |-> FALSE, rels |-> {}]
NextLink == [present |-> TRUE, rels |-> {"next", "last"}]
PrevLink == [present |-> TRUE, rels |-> {"prev", "first"}]
PrevNextLink == [present |-> TRUE, rels |-> {"prev", "next", "last", "first"}]
Links(p) == IF p = 1 THEN {NoLink, NextLink} ELSE {PrevLink, PrevNextLink}

File(fn, lg, url) == [filename |-> fn, language |-> lg, raw_url |-> url]

\* description and raw_url are "" when the API gives null
Gist(d, at, url, fs) ==
  [description |-> d, created_at |-> at, html_url |-> url, files |-> fs]

GistJs == Gist("nav toggle", "2024-03-01T10:00:00Z", "https://gist/1",
               <<File(<<"a",".","j","s">>, <<"Y","A","M","L">>, "raw/1")>>)
GistMd == Gist("", "2024-03-02T10:00:00Z", "https://gist/2",
               <<File(<<"R",".","M","D">>, <<"M","a","r","k","d","o","w","n">>,
                      "raw/2"),
                 File(<<"b",".","s","v","g">>, Null, "raw/7")>>)
GistSvg == Gist("logo", "not a date", "https://gist/3",
                <<File(<<"l",".","S","v","g">>, Null, "raw/3")>>)
GistNoFiles == Gist("", "2024-03-04T10:00:00Z", "https://gist/4", <<>>)
GistNoUrl == Gist("unit", "2024-03-05T10:00:00Z", "https://gist/5",
                  <<File(<<"x",".","s","e","r","v","i","c","e">>, Null, "")>>)
Pool == {GistJs, GistMd, GistSvg, GistNoFiles, GistNoUrl}

\* the text a raw URL serves with a success status, and with an error status
RawBody(url, ok) ==
  IF ~ok THEN <<"4","0","4">>
  ELSE IF url = "raw/1" THEN <<"a","<","b","&","c">>
  ELSE IF url = "raw/2" THEN <<"#",BQ,"x",BQ>>
  ELSE <<"<","s","v","g",">">>

\* grammars the highlighter registers on the page
PagePrism == {<<"y","a","m","l">>, <<"t","o","m","l">>,
              <<"j","a","v","a","s","c","r","i","p","t">>}

IsServer(s) ==
  /\ Len(s) \in 1..MaxPages
  /\ \A p \in 1..Len(s) : s[p].link \in Links(p)
  /\ "next" \notin s[Len(s)].link.rels

RECURSIVE Concat(_)
Concat(pages) ==
  IF pages = <<>> THEN <<>> ELSE Head(pages).items \o Concat(Tail(pages))

RECURSIVE SumTo(_, _)
SumTo(f, n) == IF n = 0 THEN 0 ELSE f[n] + SumTo(f, n - 1)

\* the page sizes sz cut the feed into consecutive pages
Cut(feed, sz, ln) ==
  [p \in 1..Len(sz) |->
     [items |-> SubSeq(feed, SumTo(sz, p - 1) + 1, SumTo(sz, p)),
      link |-> ln[p]]]

(* ------------------------------------------------------------- the DOM *)
LoadingNode ==
  [tag |-> "loading", hasProgress |-> TRUE, progress |-> <<"Starting...">>]
NoGistsNode == [tag |-> "p", text |-> "No gists found for this user."]
NoGistsIndex == [tag |-> "li", text |-> "No public gists available"]
ErrorNode == [tag |-> "error", text |-> "Failed to load gists. Possible reasons:"]
ErrorIndex == [tag |-> "li", text |-> "Error loading index"]

\* document.getElementById('loading-progress')
progressAt(c) == {k \in 1..Len(c) : c[k].tag = "loading" /\ c[k].hasProgress}

ProgressText(n, total) ==
  <<"Loading gist ", ToString(n), " of ", ToString(total), "...">>

\* progress.textContent = ... when the element exists
setProgress(c, text) ==
  [k \in 1..Len(c) |->
     IF k \in progressAt(c) /\ \A m \in progressAt(c) : k <= m
     THEN [c[k] EXCEPT !.progress = text] ELSE c[k]]

\* progress.remove() when the element exists
removeProgress(c) ==
  [k \in 1..Len(c) |->
     IF k \in progressAt(c) /\ \A m \in progressAt(c) : k <= m
     THEN [c[k] EXCEPT !.hasProgress = FALSE] ELSE c[k]]

\* insertion at the front instead of the end
prependChild(parent, node) == <<node>> \o parent

appendChild(parent, node) == Append(parent, node)

gistId(index) == <<"gist-", ToString(index)>>
anchorHref(id) == <<"#">> \o id
\* the synthetic label numbered from zero
gistTitleZeroBased(gist, index) ==
  IF gist.description # "" THEN <<gist.description>>
  ELSE <<"Gist ", ToString(index)>>

gistTitle(gist, index) ==
  IF gist.description # "" THEN <<gist.description>>
  ELSE <<"Gist ", ToString(index + 1)>>

formatDate(dateString) ==
  IF dateString = "not a date" THEN <<"Invalid Date">>
  ELSE <<"en-US short", dateString>>

IndexEntry(gist, index) ==
  [tag |-> "li", href |-> anchorHref(gistId(index)),
   title |-> gistTitle(gist, index)]

\* the gistDiv of processGist with the content element it ends up holding
GistBlock(gist, index, content) ==
  [tag |-> "gist", id |-> gistId(index),
   heading |-> [href |-> gist.html_url, title |-> gistTitle(gist, index)],
   files |-> [k \in 1..Len(gist.files) |-> formatDate(gist.created_at)],
   content |-> content]

\* text.replace(/c/g, with): every occurrence of the character c, in one
\* pass from left to right
RECURSIVE replaceAll(_, _, _)
replaceAll(text, c, with) ==
  IF text = <<>> THEN <<>>
  ELSE (IF Head(text) = c THEN with ELSE <<Head(text)>>)
       \o replaceAll(Tail(text), c, with)

\* the three replacements with the ampersand pass last
escapeHtmlAmpLast(text) ==
  replaceAll(replaceAll(replaceAll(text, "<", <<"&","l","t",";">>),
                        ">", <<"&","g","t",";">>),
             "&", <<"&","a","m","p",";">>)

escapeHtml(text) ==
  replaceAll(replaceAll(replaceAll(text, "&", <<"&","a","m","p",";">>),
                        "<", <<"&","l","t",";">>),
             ">", <<"&","g","t",";">>)

\* marked.parse: a code span in the source becomes a code element
markedParse(markdown) ==
  [source |-> markdown,
   hasCode |-> \E k \in 1..Len(markdown) : markdown[k] = BQ]

NoContent == [kind |-> "none"]
Placeholder == [kind |-> "placeholder", text |-> "Could not load file preview."]
SvgContent(file) ==
  [kind |-> "svg", src |-> file.raw_url, alt |-> file.filename]
MarkdownContent(text) == [kind |-> "markdown", html |-> markedParse(text)]
CodeContent(file, text, prism) ==
  [kind |-> "code",
   class |-> getLanguageClass(file.filename, file.language, prism),
   text |-> escapeHtml(text)]

\* the .svg test on the name as written
isSvgCaseSensitive(file) == endsWith(file.filename, <<".","s","v","g">>)

isSvg(file) == endsWith(toLowerCase(file.filename), <<".","s","v","g">>)
isMd(file) == endsWith(toLowerCase(file.filename), <<".","m","d">>)

\* gistDiv.querySelector('code') finds an element
hasCodeElement(content) ==
  \/ content.kind = "code"
  \/ content.kind = "markdown" /\ content.html.hasCode

(* ------------------------------------------------------- HTTP requests *)
username == "Ant0wan"
perPage == 100
pageUrl(p) ==
  <<"https://api.github.com/users/", username, "/gists?per_page=",
    ToString(perPage), "&page=", ToString(p)>>

\* fetchWithTimeout: a new controller, a new timer, the request goes out
Issue(rs, kind, key, url) ==
  Append(rs, [kind |-> kind, key |-> key, url |-> url, st |-> "inflight",
              timer |-> "pending", ok |-> "none", body |-> "none"])
\* the response arrives with its status: fetch resolves, then clearTimeout(id)
resolved(r, ok) ==
  [r EXCEPT !.st = "resolved", !.timer = "cleared",
            !.ok = IF ok THEN "ok" ELSE "notok"]
\* fetch rejects with a network error: the timer is left running
rejected(r) == [r EXCEPT !.st = "failed"]
\* the setTimeout callback has run
timerFired(r) == [r EXCEPT !.timer = "fired"]

\* one controller for the whole page, the one of the latest request
controllerShared(k) == Len(reqs)

\* the controller the timer of request k aborts: the one created in the
\* same call of fetchWithTimeout
controllerOf(k) == k

\* a timeout that gives up waiting but leaves the request running
abortWithoutSignal(r) == r

\* controller.abort() cancels the request if it is still in flight
abort(r) ==
  [r EXCEPT !.st = IF r.st = "inflight" THEN "aborted" ELSE r.st]
\* response.json() or response.text() settles
bodySettled(r, read) == [r EXCEPT !.body = IF read THEN "read" ELSE "failed"]
\* the body never arrives: no timer is left to end the wait
bodyStalled(r) == [r EXCEPT !.body = "stalled"]
SetLast(rs, r) == [rs EXCEPT ![Len(rs)] = r]
Last(rs) == rs[Len(rs)]
InFlight == {k \in 1..Len(reqs) : reqs[k].st = "inflight"}

\* any Link header taken as the promise of a further page
hasNextAnyLink(link) == link.present

hasNext(link) == link.present /\ "next" \in link.rels

\* the new page put in front of the accumulator
accumulateInFront(all, gs) == gs \o all

accumulate(all, gs) == all \o gs

\* every recorded error thrown, whatever was accumulated
rethrowsAlways(err, all) == err # "none"

rethrows(err, all) == err # "none" /\ Len(all) = 0

\* the empty result not told apart
isEmptyNever(gs) == FALSE

isEmpty(gs) == Len(gs) = 0

(* ----------------------------------------------------------- the driver *)
Init ==
  /\ pc = "idle"
  /\ page = 1 /\ allGists = <<>> /\ hasMore = TRUE /\ error = "none"
  /\ gists = <<>> /\ thrown = "none" /\ i = 0
  /\ container = <<>> /\ indexList = <<>>
  /\ reqs = <<>> /\ resp = "none" /\ highlights = <<>>
  /\ \E n \in 1..MaxPages : \E sz \in [1..n -> 0..MaxGists] :
       /\ SumTo(sz, n) <= MaxGists
       /\ \E feed \in [1..SumTo(sz, n) -> Pool] : \E ln \in [1..n -> {NoLink, NextLink, PrevLink, PrevNextLink}] :
            \* the API lists each gist once
            /\ \A a, b \in DOMAIN feed : feed[a] = feed[b] => a = b
            /\ server = Cut(feed, sz, ln)
            /\ IsServer(server)
  /\ prismLanguages = PagePrism
  /\ clsFile = <<>> /\ clsLang = Null /\ clsOut = <<>>
  /\ escIn = <<>> /\ escOut = Null

\* a catch of fetchGists that shows the message and starts the load again
DriverErrorRestarts ==
  /\ container' = <<ErrorNode>>
  /\ indexList' = <<ErrorIndex>>
  /\ pc' = "idle"

\* the catch of fetchGists
DriverError ==
  /\ container' = <<ErrorNode>>
  /\ indexList' = <<ErrorIndex>>
  /\ pc' = "error"

\* fetchAllGists leaves its loop with the gists gs and the error err, and
\* fetchGists goes on with what it returned or threw
Settled(gs, err) ==
  IF rethrows(err, gs)
  THEN /\ thrown' = err
       /\ DriverError
       /\ UNCHANGED <<gists, i>>
  ELSE /\ thrown' = "none"
       /\ gists' = gs
       /\ i' = 0
       /\ IF isEmpty(gs)
          THEN /\ container' = <<NoGistsNode>>
               /\ indexList' = <<NoGistsIndex>>
               /\ pc' = "empty"
          ELSE /\ container' = <<>>
               /\ indexList' = <<>>
               /\ pc' = "loop"

\* a catch that leaves hasMore set: the loop asks for the same page again
PageCatchRetries(err, rs) ==
  /\ error' = err
  /\ hasMore' = TRUE
  /\ reqs' = Issue(rs, "page", page, pageUrl(page))
  /\ pc' = "pageFetch"
  /\ resp' = "none"
  /\ UNCHANGED <<page, allGists, highlights, gists, thrown, i, container,
                 indexList>>

\* the catch of fetchAllGists, the requests being rs by then
PageCatch(err, rs) ==
  /\ error' = err
  /\ hasMore' = FALSE
  /\ reqs' = rs
  /\ Settled(allGists, err)
  /\ resp' = "none"
  /\ UNCHANGED <<page, allGists, highlights>>

\* Prism.highlightElement on the code element of block, the container
\* being c at the time of the call
highlightElement(c, block) ==
  [id |-> block.id, attached |-> \E k \in 1..Len(c) : c[k] = block]

\* the end of processGist with the highlighting done before the block is
\* appended
RenderedHighlightsFirst(content, prismThrows) ==
  LET block == GistBlock(gists[i + 1], i, content)
  IN  IF hasCodeElement(content) /\ prismThrows
      THEN /\ DriverError
           /\ UNCHANGED <<i, highlights>>
      ELSE /\ highlights' = IF hasCodeElement(content)
                            THEN Append(highlights,
                                        highlightElement(container, block))
                            ELSE highlights
           /\ container' = appendChild(container, block)
           /\ i' = i + 1
           /\ pc' = "loop"
           /\ UNCHANGED indexList

\* the end of processGist: the block is appended and highlighted, and the
\* loop of fetchGists moves to the next gist
Rendered(content, prismThrows) ==
  LET block == GistBlock(gists[i + 1], i, content)
      after == appendChild(container, block)
  IN  IF hasCodeElement(content) /\ prismThrows
      THEN /\ DriverError
           /\ UNCHANGED <<i, highlights>>
      ELSE /\ container' = after
           /\ highlights' = IF hasCodeElement(content)
                            THEN Append(highlights,
                                        highlightElement(after, block))
                            ELSE highlights
           /\ i' = i + 1
           /\ pc' = "loop"
           /\ UNCHANGED indexList

\* without the try of processGist the failure reaches the catch of fetchGists
FileThrows ==
  /\ DriverError
  /\ UNCHANGED <<i, highlights>>

\* the catch of processGist, then the end of processGist
FileCatch == Rendered(Placeholder, FALSE)

DOMContentLoaded ==
  /\ UNCHANGED fixed
  /\ pc = "idle"
  /\ container' = <<LoadingNode>>
  /\ page' = 1 /\ allGists' = <<>> /\ hasMore' = TRUE /\ error' = "none"
  /\ reqs' = Issue(reqs, "page", 1, pageUrl(1))
  /\ pc' = "pageFetch"
  /\ UNCHANGED <<gists, thrown, i, indexList, resp, highlights>>

PageResponse(ok) ==
  /\ UNCHANGED fixed
  /\ pc = "pageFetch"
  /\ LET rs == SetLast(reqs, resolved(Last(reqs), ok))
     IN  IF ok
         THEN /\ reqs' = rs
              /\ pc' = "pageJson"
              /\ resp' = "ok"
              /\ UNCHANGED <<page, allGists, hasMore, error, gists, thrown, i,
                             container, indexList, highlights>>
         ELSE PageCatch("http", rs)

PageFetchRejects ==
  /\ UNCHANGED fixed
  /\ pc = "pageFetch"
  /\ PageCatch("network", SetLast(reqs, rejected(Last(reqs))))

PageBody(parsed) ==
  /\ UNCHANGED fixed
  /\ pc = "pageJson"
  /\ LET rs == SetLast(reqs, bodySettled(Last(reqs), parsed))
     IN  IF parsed
         THEN /\ allGists' = accumulate(allGists, server[page].items)
              /\ hasMore' = hasNext(server[page].link)
              /\ page' = page + 1
              /\ resp' = "none"
              /\ UNCHANGED <<error, highlights>>
              /\ IF hasMore'
                 THEN /\ reqs' = Issue(rs, "page", page', pageUrl(page'))
                      /\ pc' = "pageFetch"
                      /\ UNCHANGED <<gists, thrown, i, container, indexList>>
                 ELSE /\ Settled(allGists', error)
                      /\ reqs' = rs
         ELSE PageCatch("parse", rs)

\* response.json() never settles
PageBodyStalls ==
  /\ UNCHANGED fixed
  /\ pc = "pageJson"
  /\ reqs' = SetLast(reqs, bodyStalled(Last(reqs)))
  /\ pc' = "pageStalled"
  /\ UNCHANGED <<page, allGists, hasMore, error, gists, thrown, i, container,
                 indexList, resp, highlights>>

LoopHead ==
  /\ UNCHANGED fixed
  /\ pc = "loop"
  /\ IF i < Len(gists)
     THEN /\ container' = setProgress(container, ProgressText(i + 1, Len(gists)))
          /\ pc' = "process"
     ELSE /\ container' = removeProgress(container)
          /\ pc' = "done"
  /\ UNCHANGED <<page, allGists, hasMore, error, gists, thrown, i, indexList,
                 reqs, resp, highlights>>

ProcessGist ==
  /\ UNCHANGED fixed
  /\ pc = "process"
  /\ LET gist == gists[i + 1]
         firstFile == gist.files[1]
     IN  IF gist.files = <<>>
         THEN /\ DriverError
              /\ UNCHANGED <<i, reqs, highlights>>
         ELSE IF firstFile.raw_url = ""
         THEN /\ indexList' = appendChild(indexList, IndexEntry(gist, i))
              /\ container' = appendChild(container,
                                          GistBlock(gist, i, NoContent))
              /\ i' = i + 1
              /\ pc' = "loop"
              /\ UNCHANGED <<reqs, highlights>>
         ELSE IF isSvg(firstFile)
         THEN /\ indexList' = appendChild(indexList, IndexEntry(gist, i))
              /\ container' = appendChild(container,
                                 GistBlock(gist, i, SvgContent(firstFile)))
              /\ i' = i + 1
              /\ pc' = "loop"
              /\ UNCHANGED <<reqs, highlights>>
         ELSE /\ indexList' = appendChild(indexList, IndexEntry(gist, i))
              /\ reqs' = Issue(reqs, "file", i, firstFile.raw_url)
              /\ pc' = "fileFetch"
              /\ UNCHANGED <<i, container, highlights>>
  /\ UNCHANGED <<page, allGists, hasMore, error, gists, thrown, resp>>

\* a response whose status is checked as fetchAllGists checks it
FileResponseChecksStatus(ok) ==
  /\ UNCHANGED fixed
  /\ pc = "fileFetch"
  /\ reqs' = SetLast(reqs, resolved(Last(reqs), ok))
  /\ IF ok
     THEN /\ resp' = "ok"
          /\ pc' = "fileText"
          /\ UNCHANGED <<page, allGists, hasMore, error, gists, thrown, i,
                         container, indexList, highlights>>
     ELSE /\ FileCatch
          /\ UNCHANGED <<page, allGists, hasMore, error, gists, thrown, resp>>

FileResponse(ok) ==
  /\ UNCHANGED fixed
  /\ pc = "fileFetch"
  /\ reqs' = SetLast(reqs, resolved(Last(reqs), ok))
  /\ resp' = IF ok THEN "ok" ELSE "notok"
  /\ pc' = "fileText"
  /\ UNCHANGED <<page, allGists, hasMore, error, gists, thrown, i, container,
                 indexList, highlights>>

FileFetchRejects ==
  /\ UNCHANGED fixed
  /\ pc = "fileFetch"
  /\ Cardinality({k \in 1..Len(reqs) : reqs[k].timer = "pending"
                                        /\ reqs[k].st = "failed"}) < MaxStaleTimers
  /\ reqs' = SetLast(reqs, rejected(Last(reqs)))
  /\ FileCatch
  /\ UNCHANGED <<page, allGists, hasMore, error, gists, thrown, resp>>

FileBody(read, prismThrows) ==
  /\ UNCHANGED fixed
  /\ pc = "fileText"
  /\ LET firstFile == gists[i + 1].files[1]
         text == RawBody(firstFile.raw_url, resp = "ok")
     IN  IF ~read THEN FileCatch
         ELSE IF isMd(firstFile)
         THEN Rendered(MarkdownContent(text), prismThrows)
         ELSE Rendered(CodeContent(firstFile, text, prismLanguages),
                       prismThrows)
  /\ resp' = "none"
  /\ reqs' = SetLast(reqs, bodySettled(Last(reqs), read))
  /\ UNCHANGED <<page, allGists, hasMore, error, gists, thrown>>

\* response.text() never settles
FileBodyStalls ==
  /\ UNCHANGED fixed
  /\ pc = "fileText"
  /\ reqs' = SetLast(reqs, bodyStalled(Last(reqs)))
  /\ pc' = "fileStalled"
  /\ UNCHANGED <<page, allGists, hasMore, error, gists, thrown, i, container,
                 indexList, resp, highlights>>

\* the setTimeout callback of request k runs and aborts its controller
TimerFires(k) ==
  /\ UNCHANGED fixed
  /\ k \in 1..Len(reqs)
  /\ reqs[k].timer = "pending"
  /\ pc \in {"pageFetch", "pageJson", "pageStalled", "fileFetch", "fileText",
            "fileStalled", "done", "empty", "error"}
  /\ LET t == controllerOf(k)
         rs == [[reqs EXCEPT ![k] = timerFired(reqs[k])]
                  EXCEPT ![t] = abort(@)]
     IN  IF reqs[t].st # "inflight"
         THEN /\ reqs' = rs
              /\ UNCHANGED <<pc, page, allGists, hasMore, error, gists,
                             thrown, i, container, indexList, resp,
                             highlights>>
         ELSE IF pc = "pageFetch" THEN PageCatch("abort", rs)
         ELSE /\ reqs' = rs
              /\ FileCatch
              /\ UNCHANGED <<page, allGists, hasMore, error, gists, thrown,
                             resp>>

Next ==
  \/ DOMContentLoaded
  \/ \E ok \in BOOLEAN : PageResponse(ok)
  \/ PageFetchRejects
  \/ \E parsed \in BOOLEAN : PageBody(parsed)
  \/ PageBodyStalls
  \/ LoopHead
  \/ ProcessGist
  \/ \E ok \in BOOLEAN : FileResponse(ok)
  \/ FileFetchRejects
  \/ \E read \in BOOLEAN, prismThrows \in BOOLEAN : FileBody(read, prismThrows)
  \/ FileBodyStalls
  \/ \E k \in 1..Len(reqs) : TimerFires(k)

Spec == Init /\ [][Next]_vars

\* the event loop runs every callback that is ready, and every request that
\* is in flight gets its response, fails or is aborted by its timer
FairSpec == Spec /\ WF_vars(Next)

(* ------------------------------------------- the classifier on its own *)
Stems == {<<"a">>, <<"a",".","b">>, <<".">>}
Exts == {<<"y","m","l">>, <<"Y","M","L">>, <<"y","a","m","l">>,
         <<"Y","a","m","l">>, <<"j","s">>, <<"J","S">>, <<"p","y">>,
         <<"s","h">>, <<"j","s","o","n">>, <<"m","d">>, <<"M","d">>,
         <<"h","t","m","l">>, <<"h","t","m">>,
         <<"s","e","r","v","i","c","e">>, <<"i","n","i">>, <<"c","f","g">>,
         <<"e","x","t">>, <<"t","x","t">>, <<"t","o","m","l">>, <<>>}
FileNames ==
  {st \o <<".">> \o e : st \in Stems, e \in Exts} \cup Exts \cup Stems
Languages == {Null, <<>>, <<"Y","A","M","L">>, <<"y","a","m","l">>,
              <<"Y","a","m","l">>, <<"T","O","M","L">>,
              <<"P","y","t","h","o","n">>, <<"t","e","x","t">>,
              <<"I","N","I">>}
PrismSets == {{}, PagePrism, {<<"y","a","m","l">>},
              {<<"p","y","t","h","o","n">>, <<"i","n","i">>,
               <<"t","e","x","t">>}}

ClassInit ==
  /\ pc = "idle"
  /\ page = 1 /\ allGists = <<>> /\ hasMore = TRUE /\ error = "none"
  /\ gists = <<>> /\ thrown = "none" /\ i = 0
  /\ container = <<>> /\ indexList = <<>>
  /\ reqs = <<>> /\ resp = "none" /\ highlights = <<>>
  /\ server = <<[items |-> <<>>, link |-> NoLink]>>
  /\ prismLanguages \in PrismSets
  /\ clsFile \in FileNames
  /\ clsLang \in Languages
  /\ clsOut = <<>>
  /\ escIn = <<>> /\ escOut = Null

Classify ==
  /\ clsOut = <<>>
  /\ clsOut' = getLanguageClass(clsFile, clsLang, prismLanguages)
  /\ UNCHANGED <<pipeVars, prismLanguages, clsFile, clsLang, escVars>>

ClassNext == Classify

ClassSpec == ClassInit /\ [][ClassNext]_vars

(* ------------------------------------------------ escapeHtml on its own *)
TextChars == {"&", "<", ">", ";", "a", "l", "t"}
ScriptText == <<"<","s","c","r","i","p","t",">","&",
                "<","/","s","c","r","i","p","t",">">>
Texts == UNION {[1..n -> TextChars] : n \in 0..MaxText} \cup {ScriptText}

EscInit ==
  /\ pc = "idle"
  /\ page = 1 /\ allGists = <<>> /\ hasMore = TRUE /\ error = "none"
  /\ gists = <<>> /\ thrown = "none" /\ i = 0
  /\ container = <<>> /\ indexList = <<>>
  /\ reqs = <<>> /\ resp = "none" /\ highlights = <<>>
  /\ server = <<[items |-> <<>>, link |-> NoLink]>>
  /\ prismLanguages = PagePrism
  /\ clsFile = <<>> /\ clsLang = Null /\ clsOut = <<>>
  /\ escIn \in Texts
  /\ escOut = Null

Escape ==
  /\ escOut = Null
  /\ escOut' = escapeHtml(escIn)
  /\ UNCHANGED <<pipeVars, prismLanguages, clsVars, escIn>>

EscNext == Escape

EscSpec == EscInit /\ [][EscNext]_vars

(* ================================================== the page load claims *)
FetchReturned == pc \in {"loop", "process", "fileFetch", "fileText",
                         "fileStalled", "done", "empty", "error"}
PageKeys == [k \in 1..Len(SelectSeq(reqs, LAMBDA r : r.kind = "page")) |->
               SelectSeq(reqs, LAMBDA r : r.kind = "page")[k].key]
FileReqs == SelectSeq(reqs, LAMBDA r : r.kind = "file")
OnlyLastLacksNext ==
  \A p \in 1..Len(server) : ("next" \in server[p].link.rels) <=> p < Len(server)
IndexGists == SelectSeq(indexList, LAMBDA e : "href" \in DOMAIN e)
Blocks == SelectSeq(container, LAMBDA e : e.tag = "gist")

\* C1: when every page request succeeds and only the last page lacks
\* rel="next", the pages requested so far are 1, 2, ... in increasing order
\* without repetition and never beyond the last page, and once fetchAllGists
\* has returned it has requested exactly the pages 1..n and returned the
\* concatenation of their items in page order.
C1_ConcatenatesAllPages ==
  (OnlyLastLacksNext /\ error = "none") =>
     /\ Len(PageKeys) <= Len(server)
     /\ \A k \in 1..Len(PageKeys) : PageKeys[k] = k
     /\ FetchReturned =>
          /\ Len(PageKeys) = Len(server)
          /\ thrown = "none"
          /\ gists = Concat(server)

C1_Witness ==
  /\ OnlyLastLacksNext /\ error = "none" /\ FetchReturned
  /\ Len(server) = 2
  /\ Len(gists) = 2
  /\ gists[1] # gists[2]
  /\ server[1].items # <<>> /\ server[2].items # <<>>

\* C2: when a page request has failed (status, network error, abort or body),
\* fetchAllGists rejects with that error if nothing was accumulated, and
\* otherwise returns exactly the items of the pages before the failed one
\* and throws nothing.
C2_PartialOrReject ==
  (error # "none") =>
     /\ FetchReturned
     /\ allGists = Concat(SubSeq(server, 1, page - 1))
     /\ allGists = <<>> => (thrown = error /\ pc = "error" /\ gists = <<>>)
     /\ allGists # <<>> => (thrown = "none" /\ gists = allGists)

C2_Witness ==
  /\ error = "http" /\ page = 2 /\ Len(server) = 2
  /\ Len(gists) = 1 /\ thrown = "none" /\ pc = "loop"

\* C3: at most one HTTP request is in flight in every reachable state.
C3_OneRequestInFlight ==
  Cardinality({k \in 1..Len(reqs) : reqs[k].st = "inflight"}) <= 1

C3_Witness ==
  /\ Len(reqs) >= 3
  /\ reqs[Len(reqs)].st = "inflight" /\ reqs[Len(reqs)].kind = "file"
  /\ \E k \in 1..Len(reqs) - 1 : reqs[k].st = "aborted"

\* C4: the gist entries of the index and the gist blocks of the container
\* follow the order of the fetched gists: the k-th entry and the k-th block
\* belong to the k-th gist, the k-th entry's anchor is '#' followed by the
\* k-th block's id, the blocks are a prefix of the entries (at most one
\* entry ahead, while its file is fetched), and at done there is one of
\* each per gist.
C4_IndexMatchesBlocks ==
  /\ Len(Blocks) <= Len(IndexGists)
  /\ Len(IndexGists) <= Len(Blocks) + 1
  /\ Len(IndexGists) <= Len(gists)
  /\ \A k \in 1..Len(IndexGists) :
       IndexGists[k].href = <<"#", "gist-", ToString(k - 1)>>
  /\ \A k \in 1..Len(Blocks) :
       /\ IndexGists[k].href = <<"#">> \o Blocks[k].id
       /\ Blocks[k].heading.href = gists[k].html_url
       /\ Blocks[k].heading.title = IndexGists[k].title
  /\ pc \in {"fileFetch", "fileText", "fileStalled"}
       => Len(IndexGists) = Len(Blocks) + 1
  /\ pc = "done" => (Len(IndexGists) = Len(gists) /\ Len(Blocks) = Len(gists))

C4_Witness ==
  /\ pc = "fileText"
  /\ Len(IndexGists) = 2 /\ Len(Blocks) = 1
  /\ gists[1] # gists[2]

\* C5: a failed file fetch of gist k (network error or abort) leaves the
\* placeholder in block k and the loop goes on with the next gist; a block
\* shows the placeholder only when its own fetch or body read failed; at
\* done every gist has its block.
FileFailed(k) ==
  \E r \in 1..Len(FileReqs) :
     /\ FileReqs[r].key = k
     /\ FileReqs[r].st \in {"failed", "aborted"} \/ FileReqs[r].body = "failed"
FetchFailed(k) ==
  \E r \in 1..Len(FileReqs) :
     FileReqs[r].key = k /\ FileReqs[r].st \in {"failed", "aborted"}
C5_State ==
  /\ \A k \in 1..Len(Blocks) :
       /\ FetchFailed(k - 1) => Blocks[k].content.kind = "placeholder"
       /\ Blocks[k].content.kind = "placeholder" => FileFailed(k - 1)
  /\ pc = "done" => Len(Blocks) = Len(gists)
C5_Step ==
  (pc = "fileFetch" /\ reqs'[Len(reqs)].st \in {"failed", "aborted"}) =>
     /\ pc' = "loop"
     /\ i' = i + 1
     /\ Len(container') = Len(container) + 1
     /\ container'[Len(container')].content.kind = "placeholder"
     /\ SubSeq(container', 1, Len(container)) = container
     /\ indexList' = indexList
C5_FileFailureIsolated == [](C5_State) /\ [][C5_Step]_vars

C5_Witness ==
  /\ pc = "done" /\ Len(gists) = 2
  /\ FetchFailed(0) /\ ~FileFailed(1)
  /\ Len(Blocks) = 2
  /\ Blocks[1].content.kind = "placeholder"
  /\ Blocks[2].content.kind = "code"

\* C6: once the fetch has returned one or more gists the page never shows
\* the 'Failed to load gists' message nor 'Error loading index'.
C6_ErrorOnlyFromLoading ==
  Len(gists) > 0 =>
     /\ \A k \in 1..Len(container) : container[k] # ErrorNode
     /\ \A k \in 1..Len(indexList) : indexList[k] # ErrorIndex
     /\ pc # "error"

\* C7: right before gist i of N is processed the progress indicator is in
\* the page and reads 'Loading gist i of N...'; at done no indicator is left.
C7_ProgressShown ==
  /\ pc = "process" =>
       \E k \in 1..Len(container) :
          /\ container[k].tag = "loading"
          /\ container[k].hasProgress
          /\ container[k].progress =
               <<"Loading gist ", ToString(i + 1), " of ",
                 ToString(Len(gists)), "...">>
  /\ pc = "done" =>
       \A k \in 1..Len(container) :
          container[k].tag = "loading" => ~container[k].hasProgress

\* C8: a fetch that returns zero gists without throwing ends in the empty
\* state: one 'No public gists available' index entry, only the 'No gists
\* found for this user.' message in the container, no progress indicator,
\* no error message, and no file request ever issued.
C8_EmptyState ==
  (FetchReturned /\ thrown = "none" /\ Len(gists) = 0) =>
     /\ pc = "empty"
     /\ indexList = <<[tag |-> "li", text |-> "No public gists available"]>>
     /\ container = <<[tag |-> "p", text |-> "No gists found for this user."]>>
     /\ Len(FileReqs) = 0
     /\ highlights = <<>>

C8_Witness ==
  /\ pc = "empty" /\ Len(server) = 2 /\ Len(PageKeys) = 2
  /\ Len(indexList) = 1

(* ================================================ the classifier claims *)
Classified == clsOut # <<>>
Folded(s) == [k \in 1..Len(s) |-> LowerChar(s[k])]
EndsInExt(fn, e) ==
  /\ Len(fn) >= Len(e) + 1
  /\ SubSeq(Folded(fn), Len(fn) - Len(e), Len(fn)) = <<".">> \o e
YamlName == <<"y","a","m","l">>
DeclaredYaml == clsLang # Null /\ Folded(clsLang) = YamlName
\* extension and the name of its category
ExtTable ==
  {<<<<"y","m","l">>, YamlName>>, <<YamlName, YamlName>>,
   <<<<"j","s">>, <<"j","a","v","a","s","c","r","i","p","t">>>>,
   <<<<"p","y">>, <<"p","y","t","h","o","n">>>>,
   <<<<"s","h">>, <<"b","a","s","h">>>>,
   <<<<"j","s","o","n">>, <<"j","s","o","n">>>>,
   <<<<"m","d">>, <<"m","a","r","k","d","o","w","n">>>>,
   <<<<"h","t","m","l">>, <<"h","t","m","l">>>>,
   <<<<"h","t","m">>, <<"h","t","m","l">>>>,
   <<<<"s","e","r","v","i","c","e">>, <<"i","n","i">>>>,
   <<<<"i","n","i">>, <<"i","n","i">>>>,
   <<<<"c","f","g">>, <<"i","n","i">>>>,
   <<<<"e","x","t">>, <<"i","n","i">>>>}

\* C9 as stated: a name ending in .yml or .yaml, or a declared language
\* YAML in any letter case, always gives the YAML category.
C9_YamlAlways ==
  Classified =>
    ((EndsInExt(clsFile, <<"y","m","l">>) \/ EndsInExt(clsFile, YamlName)
      \/ DeclaredYaml)
       => clsOut = <<"language-","y","a","m","l">>)

\* C9 amended: a name ending in .yml or .yaml (any letter case) gives the
\* YAML category whatever the declared language; a declared language YAML
\* gives it when the lower-cased name neither is nor ends in a dot and one
\* of the other recognized extensions and the highlighter registers yaml.
C9_YamlByExtension ==
  Classified =>
    /\ (EndsInExt(clsFile, <<"y","m","l">>) \/ EndsInExt(clsFile, YamlName))
         => clsOut = <<"language-","y","a","m","l">>
    /\ ( /\ DeclaredYaml
         /\ YamlName \in prismLanguages
         /\ \A p \in ExtTable :
              p[2] # YamlName =>
                (~EndsInExt(clsFile, p[1]) /\ Folded(clsFile) # p[1]) )
         => clsOut = <<"language-","y","a","m","l">>

C9_Witness ==
  /\ Classified
  /\ clsFile = <<"a",".","b",".","Y","a","m","l">>
  /\ clsLang = <<"P","y","t","h","o","n">>
  /\ <<"p","y","t","h","o","n">> \in prismLanguages
  /\ clsOut = <<"language-","y","a","m","l">>

\* C10: a name ending in a dot and a recognized extension gets that
\* extension's category whatever the declared language (.service as .ini);
\* otherwise the lower-cased declared language names the category if the
\* highlighter registers it; otherwise the category is plain text.
C10_Precedence ==
  Classified =>
    LET hits == {p \in ExtTable : EndsInExt(clsFile, p[1])}
        lang == IF clsLang = Null \/ clsLang = <<>> THEN <<"t","e","x","t">>
                ELSE Folded(clsLang)
    IN  IF hits # {} THEN \E p \in hits : clsOut = <<"language-">> \o p[2]
        ELSE IF lang \in prismLanguages THEN clsOut = <<"language-">> \o lang
        ELSE clsOut = <<"language-","t","e","x","t">>

(* ===================================== the page load claims, continued *)
PageReqs == SelectSeq(reqs, LAMBDA r : r.kind = "page")
Terminal == pc \in {"done", "empty", "error"}
Loading == pc \in {"idle", "pageFetch", "pageJson", "pageStalled"}
SvgName(fn) ==
  /\ Len(fn) >= 4
  /\ SubSeq(Folded(fn), Len(fn) - 3, Len(fn)) = <<".","s","v","g">>
FetchedAsText(gist) ==
  /\ gist.files # <<>>
  /\ gist.files[1].raw_url # ""
  /\ ~SvgName(gist.files[1].filename)
ExpectedTitle(k) ==
  IF gists[k].description # "" THEN <<gists[k].description>>
  ELSE <<"Gist ", ToString(k)>>

\* C12: the k-th gist (position k-1 counted from zero) is titled by its
\* description when it has one and by 'Gist k' otherwise, in its index entry
\* and in its block heading alike.
C12_Titles ==
  /\ \A k \in 1..Len(IndexGists) : IndexGists[k].title = ExpectedTitle(k)
  /\ \A k \in 1..Len(Blocks) : Blocks[k].heading.title = ExpectedTitle(k)

C12_Witness ==
  /\ Len(Blocks) = 2 /\ Len(IndexGists) = 2
  /\ Blocks[1].heading.title = <<"nav toggle">>
  /\ Blocks[2].heading.title = <<"Gist ", "2">>
  /\ IndexGists[2].title = <<"Gist ", "2">>

\* C13: the k-th page request asks for page k, and a request for page k+1
\* exists only if the request for page k got a success status, its body was
\* read and its Link header lists rel="next"; so no page is requested twice
\* and nothing is requested after a failed page or a page without next.
C13_NextOnlyWhenAdvertised ==
  \A k \in 1..Len(PageReqs) :
     /\ PageReqs[k].key = k
     /\ k > 1 =>
          /\ PageReqs[k - 1].st = "resolved"
          /\ PageReqs[k - 1].ok = "ok"
          /\ PageReqs[k - 1].body = "read"
          /\ server[k - 1].link.present
          /\ "next" \in server[k - 1].link.rels

C13_Witness ==
  /\ Len(PageReqs) = 2
  /\ PageReqs[2].body = "read"
  /\ server[2].link.present /\ "next" \notin server[2].link.rels
  /\ pc = "done"

\* C14: no request is issued twice (the load starts once and nothing is
\* retried), and from a terminal state (done, empty, error) on the state of
\* the driver, the two containers and the list of issued requests stay as
\* they are.
C14_NoRetry ==
  \A a, b \in 1..Len(reqs) :
     (a # b /\ reqs[a].kind = reqs[b].kind) => reqs[a].key # reqs[b].key
C14_TerminalStep ==
  Terminal =>
     /\ pc' = pc
     /\ container' = container
     /\ indexList' = indexList
     /\ Len(reqs') = Len(reqs)
     /\ \A k \in 1..Len(reqs) : reqs'[k].st = reqs[k].st
C14_LinearDriver == [](C14_NoRetry) /\ [][C14_TerminalStep]_vars

C14_Witness ==
  /\ pc = "error" /\ thrown = "network"
  /\ Len(reqs) = 1 /\ reqs[1].st = "failed" /\ reqs[1].timer = "fired"
  /\ container = <<ErrorNode>>

\* C15: while the gist list is being fetched there is no index entry, no
\* block, no file request and no highlighting; no page request comes after
\* a file request; and once the fetch has returned gists to render, the page
\* requests stay as they are.
C15_LoadingState ==
  /\ Loading =>
       /\ IndexGists = <<>> /\ Blocks = <<>>
       /\ Len(SelectSeq(reqs, LAMBDA r : r.kind = "file")) = 0
       /\ highlights = <<>>
  /\ \A a, b \in 1..Len(reqs) :
       (a < b /\ reqs[a].kind = "file") => reqs[b].kind = "file"
C15_RenderingStep ==
  Len(gists) > 0 =>
     Len(SelectSeq(reqs', LAMBDA r : r.kind = "page"))
       = Len(SelectSeq(reqs, LAMBDA r : r.kind = "page"))
C15_FetchBeforeRender == [](C15_LoadingState) /\ [][C15_RenderingStep]_vars

C15_Witness ==
  /\ pc = "fileFetch"
  /\ Len(PageReqs) = 2 /\ Len(FileReqs) = 1
  /\ Len(IndexGists) = 2 /\ Len(Blocks) = 1

\* C16: every file request is for a different gist whose first file is not
\* an .svg (any letter case) and has a raw URL, and asks for that first
\* file's raw URL; the block of an .svg gist holds an image whose source is
\* the raw URL and no request was made for it; outside the error state the
\* number of file requests is the number of gists rendered so far that are
\* fetched as text.
C16_ContentDispatch ==
  /\ \A r \in 1..Len(FileReqs) :
       /\ FileReqs[r].key + 1 \in 1..Len(gists)
       /\ FetchedAsText(gists[FileReqs[r].key + 1])
       /\ FileReqs[r].url = gists[FileReqs[r].key + 1].files[1].raw_url
       /\ \A q \in 1..Len(FileReqs) : q # r => FileReqs[q].key # FileReqs[r].key
  /\ \A k \in 1..Len(Blocks) :
       (SvgName(gists[k].files[1].filename) /\ gists[k].files[1].raw_url # "")
         => /\ Blocks[k].content.kind = "svg"
            /\ Blocks[k].content.src = gists[k].files[1].raw_url
            /\ \A r \in 1..Len(FileReqs) : FileReqs[r].key # k - 1
  /\ pc # "error" =>
       Len(FileReqs)
         = Cardinality({k \in 1..Len(IndexGists) : FetchedAsText(gists[k])})

C16_Witness ==
  /\ pc = "done"
  /\ Len(gists) = 2
  /\ SvgName(gists[1].files[1].filename)
  /\ Len(gists[2].files) = 2
  /\ Len(FileReqs) = 1 /\ FileReqs[1].url = "raw/2"
  /\ Blocks[1].content.kind = "svg"

\* C17: when the timer of request k fires, no other request changes and no
\* request is issued; request k is aborted if it was in flight, and if it
\* was not (its fetch had failed already) nothing but the timer changes.
C17_TimerStep ==
  \A k \in 1..Len(reqs) :
     (reqs[k].timer = "pending" /\ reqs'[k].timer = "fired") =>
        /\ Len(reqs') = Len(reqs)
        /\ \A j \in 1..Len(reqs) : j # k => reqs'[j] = reqs[j]
        /\ reqs[k].st = "inflight" => reqs'[k].st = "aborted"
        /\ reqs[k].st # "inflight" =>
             /\ reqs'[k].st = reqs[k].st
             /\ UNCHANGED <<pc, page, allGists, hasMore, error, gists, thrown,
                            i, container, indexList, resp, highlights>>
C17_OwnTimer == [][C17_TimerStep]_vars

C17_Witness ==
  /\ Len(reqs) = 3
  /\ reqs[2].kind = "file" /\ reqs[2].st = "failed" /\ reqs[2].timer = "fired"
  /\ reqs[3].kind = "file" /\ reqs[3].st = "inflight"
  /\ pc = "fileFetch"

\* C18: every page load eventually reaches done, empty or error.
C18_EventuallyTerminal == <>Terminal

\* C19: a non-success status of a file response never by itself produces the
\* placeholder: unless reading the body failed, the block of a gist whose file
\* response had a non-success status shows that body as markdown or as escaped
\* code; a gist-list page with a non-success status is an error.
C19_FileStatusIgnored ==
  /\ \A k \in 1..Len(Blocks) : \A r \in 1..Len(FileReqs) :
       (FileReqs[r].key = k - 1 /\ FileReqs[r].ok = "notok"
        /\ FileReqs[r].body # "failed") =>
          \/ /\ Blocks[k].content.kind = "code"
             /\ Blocks[k].content.text = <<"4","0","4">>
          \/ /\ Blocks[k].content.kind = "markdown"
             /\ Blocks[k].content.html.source = <<"4","0","4">>
  /\ \A k \in 1..Len(PageReqs) : PageReqs[k].ok = "notok" => error = "http"

C19_Witness ==
  /\ pc = "done"
  /\ Len(Blocks) = 1 /\ Len(FileReqs) = 1
  /\ FileReqs[1].ok = "notok"
  /\ Blocks[1].content.kind = "code"
  /\ Blocks[1].content.text = <<"4","0","4">>

\* C20: the highlighter is called at most once per gist, on a block that is
\* already in the container, and only for a gist fetched as text whose block
\* holds code or markdown: never for an image, a placeholder or an empty
\* block.
C20_HighlightOwnBlock ==
  /\ \A h \in 1..Len(highlights) :
       /\ highlights[h].attached
       /\ \A g \in 1..Len(highlights) :
            g # h => highlights[g].id # highlights[h].id
       /\ \E k \in 1..Len(gists) :
            /\ highlights[h].id = <<"gist-", ToString(k - 1)>>
            /\ FetchedAsText(gists[k])
            /\ pc # "error" =>
                 /\ k <= Len(Blocks)
                 /\ Blocks[k].id = highlights[h].id
                 /\ Blocks[k].content.kind \in {"code", "markdown"}
  /\ \A k \in 1..Len(Blocks) :
       Blocks[k].content.kind \in {"svg", "placeholder", "none"} =>
          \A h \in 1..Len(highlights) : highlights[h].id # Blocks[k].id

C20_Witness ==
  /\ pc = "done"
  /\ Len(Blocks) = 2 /\ Len(highlights) = 1
  /\ Blocks[1].content.kind = "placeholder"
  /\ Blocks[2].content.kind = "code"
  /\ highlights[1].id = Blocks[2].id

(* ================================================ the escapeHtml claims *)
Escaped == escOut # Null
EntityOf(c) ==
  IF c = "&" THEN <<"&","a","m","p",";">>
  ELSE IF c = "<" THEN <<"&","l","t",";">>
  ELSE IF c = ">" THEN <<"&","g","t",";">>
  ELSE <<c>>
RECURSIVE CharByChar(_)
CharByChar(text) ==
  IF text = <<>> THEN <<>> ELSE EntityOf(Head(text)) \o CharByChar(Tail(text))
StartsWith(s, prefix) ==
  Len(prefix) <= Len(s) /\ SubSeq(s, 1, Len(prefix)) = prefix
Drop(s, n) == SubSeq(s, n + 1, Len(s))
RECURSIVE Unescape(_)
Unescape(s) ==
  IF s = <<>> THEN <<>>
  ELSE IF StartsWith(s, <<"&","a","m","p",";">>)
    THEN <<"&">> \o Unescape(Drop(s, 5))
  ELSE IF StartsWith(s, <<"&","l","t",";">>)
    THEN <<"<">> \o Unescape(Drop(s, 4))
  ELSE IF StartsWith(s, <<"&","g","t",";">>)
    THEN <<">">> \o Unescape(Drop(s, 4))
  ELSE <<Head(s)>> \o Unescape(Tail(s))

\* C11: escapeHtml replaces each '&' by '&amp;', each '<' by '&lt;' and
\* each '>' by '&gt;', character by character and nothing else (so the
\* ampersands it writes are not escaped again); its output holds no '<' and
\* no '>', unescaping the output gives the input back, and
\* '<script>&</script>' becomes '&lt;script&gt;&amp;&lt;/script&gt;'.
C11_EscapesOnce ==
  Escaped =>
    /\ escOut = CharByChar(escIn)
    /\ \A k \in 1..Len(escOut) : escOut[k] # "<" /\ escOut[k] # ">"
    /\ Unescape(escOut) = escIn
    /\ escIn = ScriptText =>
         escOut = <<"&","l","t",";","s","c","r","i","p","t","&","g","t",";",
                    "&","a","m","p",";",
                    "&","l","t",";","/","s","c","r","i","p","t","&","g","t",";">>

C11_Witness ==
  /\ Escaped
  /\ escIn = <<"<","s","c","r","i","p","t",">","&",
               "<","/","s","c","r","i","p","t",">">>
  /\ Len(escOut) = 34

====
